---- MODULE Spec2Model ----
(***************************************************************************)
(* ForkAndExecProcess (src/libpsl-native/src/createprocess.cpp) as a state *)
(* machine: one request, the parent's path through the call and the path   *)
(* of the child that fork() creates, each with its own descriptor table.   *)
(***************************************************************************)
EXTENDS Integers, Sequences, FiniteSets, TLC

\* ---------------------------------------------------------------- bounds
\* Highest descriptor number of a process's descriptor table.
MaxFd == 8
\* How many times in total the child's system calls are interrupted (EINTR).
MaxEintr == 1
\* How many of the seven required pointer arguments of a request are null at most.
MaxNulls == 2

\* ------------------------------------------------------ program constants
CREATE_NEW_PROCESS_SESSION == 1
READ_END_OF_PIPE == 0
WRITE_END_OF_PIPE == 1
STDIN_FILENO == 0
STDOUT_FILENO == 1
STDERR_FILENO == 2
EXIT_FAILURE == 1

EPERM == 1
ENOENT == 2
EINTR == 4
EIO == 5
ENOEXEC == 8
EBADF == 9
EAGAIN == 11
ENOMEM == 12
EACCES == 13
EBUSY == 16
EINVAL == 22
ENFILE == 23
EMFILE == 24

NULL == "nullptr"
Closed == "closed"

\* The open file descriptions a descriptor can refer to: what the caller had
\* on 0, 1, 2 and the six pipe ends this call can create.
Inherited == <<"tty0", "tty1", "tty2">>
PipeEnd(stream, end) == stream \o (IF end = READ_END_OF_PIPE THEN "R" ELSE "W")
Streams == <<"stdin", "stdout", "stderr">>
PipeObjs == {PipeEnd(Streams[i], e) : i \in 1..3, e \in {READ_END_OF_PIPE, WRITE_END_OF_PIPE}}

\* ----------------------------------------------------------- input sets
PtrVals(name) == {NULL, name}
RedirectVals == {0, 1, 2}
CreationFlagVals == 0..3
Pids == {100}
OutNames == {"childPid", "stdinFd", "stdoutFd", "stderrFd"}
\* What the caller's out cells hold before the call: neither -1 nor a descriptor.
Garbage == MaxFd + 1
AccessErrnos == {ENOENT, EACCES}
PipeErrnos == {EMFILE, ENFILE}
ForkErrnos == {EAGAIN, ENOMEM}
CloseErrnos == {EIO}
Dup2Errnos == {EBUSY}
ChdirErrnos == {ENOENT, EACCES}
SetsidErrnos == {EPERM}
ExecErrnos == {ENOEXEC, EACCES}

VARIABLES
    \* the request
    filename, argv, envp, cwd,
    redirectStdin, redirectStdout, redirectStderr, creationFlags,
    childPid, stdinFd, stdoutFd, stderrFd,   \* the four out pointers
    mem,            \* the caller's cells the out pointers point to
    \* locals of the parent's call
    success, processId, stdinFds, stdoutFds, stderrFds, priorErrno,
    pc,             \* parent's position: the source line it is about to run
    errno,          \* parent's errno
    ret,            \* return value of the call
    pFd,            \* parent's descriptor table
    fd0,            \* parent's descriptor table at call time
    pCalls,         \* system calls the parent made, in order
    failure,        \* the operation that failed first and the errno it set
    \* the child created by fork()
    cPc, cErrno, cFd, cCalls, cStatus, eintr,
    \* two invocations running in two threads of one process (ConcSpec)
    conc

reqVars == <<filename, argv, envp, cwd, redirectStdin, redirectStdout, redirectStderr,
             creationFlags, childPid, stdinFd, stdoutFd, stderrFd, fd0>>
parentVars == <<mem, success, processId, stdinFds, stdoutFds, stderrFds, priorErrno,
                pc, errno, ret, pFd, pCalls, failure>>
childVars == <<cPc, cErrno, cFd, cCalls, cStatus, eintr>>
vars == <<reqVars, parentVars, childVars, conc>>

\* int fds[2] = { -1, -1 }
NoPipe == [i \in {READ_END_OF_PIPE, WRITE_END_OF_PIPE} |-> -1]

\* --------------------------------------------------- descriptor tables
Fds == 0..MaxFd
Free(tab) == {i \in Fds : tab[i] = Closed}
Lowest(S) == CHOOSE i \in S : \A j \in S : i <= j
\* pipe(): the two lowest free descriptors, read end first.
PipePair(tab) ==
    [i \in {READ_END_OF_PIPE, WRITE_END_OF_PIPE} |->
        IF i = READ_END_OF_PIPE THEN Lowest(Free(tab))
        ELSE Lowest(Free(tab) \ {Lowest(Free(tab))})]
\* The table after pipe() handed out the pair fds for the stream.
OpenPipe(tab, stream, fds) ==
    [i \in Fds |-> IF i = fds[READ_END_OF_PIPE] THEN PipeEnd(stream, READ_END_OF_PIPE)
                   ELSE IF i = fds[WRITE_END_OF_PIPE] THEN PipeEnd(stream, WRITE_END_OF_PIPE)
                   ELSE tab[i]]
CanPipe(tab) == Cardinality(Free(tab)) >= 2
\* The outcomes of pipe(): err = 0 and the pair, or an errno and the array untouched.
PipeResults(tab) ==
    (IF CanPipe(tab) THEN {[err |-> 0, fds |-> PipePair(tab)]} ELSE {})
    \cup {[err |-> e, fds |-> NoPipe] : e \in PipeErrnos}
\* close(fd): the descriptor is released.
CloseFd(tab, fd) == IF fd \in Fds THEN [tab EXCEPT ![fd] = Closed] ELSE tab
Held(tab, fd) == fd \in Fds /\ tab[fd] # Closed
\* dup2(oldfd, newfd) on success: newfd refers to what oldfd refers to.
Dup2Fd(tab, oldfd, newfd) == [tab EXCEPT ![newfd] = tab[oldfd]]

Call(op, stream, fd, err, held) ==
    [op |-> op, stream |-> stream, fd |-> fd, err |-> err, held |-> held]

\* x & ~1 on a two's complement int32
AndNot1(x) == x - (x % 2)

NoFailure == [op |-> "none", err |-> 0]

\* The descriptor tables a caller can have: each of 0, 1, 2 open or closed.
InitialTables ==
    {[i \in Fds |-> IF i \in open THEN Inherited[i + 1] ELSE Closed] : open \in SUBSET {0, 1, 2}}

\* No concurrent invocations: the single call of Spec runs alone.
ConcIdle == [tab |-> [i \in Fds |-> Closed], th |-> <<>>, ch |-> <<>>]

Init ==
    /\ filename \in PtrVals("filename")
    /\ argv \in PtrVals("argv")
    /\ envp \in PtrVals("envp")
    /\ cwd \in PtrVals("cwd")
    /\ redirectStdin \in RedirectVals
    /\ redirectStdout \in RedirectVals
    /\ redirectStderr \in RedirectVals
    /\ creationFlags \in CreationFlagVals
    /\ childPid \in PtrVals("childPid")
    /\ stdinFd \in PtrVals("stdinFd")
    /\ stdoutFd \in PtrVals("stdoutFd")
    /\ stderrFd \in PtrVals("stderrFd")
    /\ Cardinality({i \in 1..7 :
          <<filename, argv, envp, childPid, stdinFd, stdoutFd, stderrFd>>[i] = NULL}) <= MaxNulls
    /\ mem = [n \in OutNames |-> Garbage]
    /\ success = TRUE
    /\ processId = -1
    /\ stdinFds = NoPipe
    /\ stdoutFds = NoPipe
    /\ stderrFds = NoPipe
    /\ priorErrno = 0
    /\ pc = "L70"
    /\ errno = 0
    /\ ret = 0
    /\ fd0 \in InitialTables
    /\ pFd = fd0
    /\ pCalls = <<>>
    /\ failure = NoFailure
    /\ cPc = "none"
    /\ cErrno = 0
    /\ cFd = [i \in Fds |-> Closed]
    /\ cCalls = <<>>
    /\ cStatus = -1
    /\ eintr = 0
    /\ conc = ConcIdle

\* ------------------------------------------------------------ the parent
\* Lines 70-77. assert(false) aborts the process in a build with assertions
\* and is empty under NDEBUG; both builds are outcomes.
NullArgument ==
    NULL \in {filename, argv, envp, stdinFd, stdoutFd, stderrFd, childPid}

ValidateNull ==
    /\ pc = "L70"
    /\ IF NullArgument
       THEN \/ /\ pc' = "aborted"
               /\ UNCHANGED <<errno, success, failure>>
            \/ /\ errno' = EINVAL
               /\ success' = FALSE
               /\ failure' = [op |-> "validate", err |-> EINVAL]
               /\ pc' = "L167"
       ELSE /\ pc' = "L79"
            /\ UNCHANGED <<errno, success, failure>>
    /\ UNCHANGED <<reqVars, conc, childVars, mem, processId, stdinFds, stdoutFds, stderrFds,
                   priorErrno, ret, pFd, pCalls>>

\* Lines 79-85.
\* Mutant: only the stdin flag is validated.
BadRedirect_StdinOnly == AndNot1(redirectStdin) # 0

BadRedirect ==
    \/ AndNot1(redirectStdin) # 0
    \/ AndNot1(redirectStdout) # 0
    \/ AndNot1(redirectStderr) # 0

ValidateRedirect ==
    /\ pc = "L79"
    /\ IF BadRedirect
       THEN \/ /\ pc' = "aborted"
               /\ UNCHANGED <<errno, success, failure>>
            \/ /\ errno' = EINVAL
               /\ success' = FALSE
               /\ failure' = [op |-> "validate", err |-> EINVAL]
               /\ pc' = "L167"
       ELSE /\ pc' = "L92"
            /\ UNCHANGED <<errno, success, failure>>
    /\ UNCHANGED <<reqVars, conc, childVars, mem, processId, stdinFds, stdoutFds, stderrFds,
                   priorErrno, ret, pFd, pCalls>>

\* Mutant: the result of access() is not acted on.
Access_NotChecked ==
    /\ pc = "L92"
    /\ \E e \in {0} \cup AccessErrnos :
          /\ pCalls' = Append(pCalls, Call("access", "", -1, e, FALSE))
          /\ errno' = IF e = 0 THEN errno ELSE e
          /\ pc' = "L99"
          /\ UNCHANGED <<success, failure>>
    /\ UNCHANGED <<reqVars, conc, childVars, mem, processId, stdinFds, stdoutFds, stderrFds,
                   priorErrno, ret, pFd>>

\* Lines 92-96: access(filename, X_OK).
Access ==
    /\ pc = "L92"
    /\ \/ /\ pCalls' = Append(pCalls, Call("access", "", -1, 0, FALSE))
          /\ pc' = "L99"
          /\ UNCHANGED <<errno, success, failure>>
       \/ \E e \in AccessErrnos :
             /\ pCalls' = Append(pCalls, Call("access", "", -1, e, FALSE))
             /\ errno' = e
             /\ success' = FALSE
             /\ failure' = [op |-> "access", err |-> e]
             /\ pc' = "L167"
    /\ UNCHANGED <<reqVars, conc, childVars, mem, processId, stdinFds, stdoutFds, stderrFds,
                   priorErrno, ret, pFd>>

\* Lines 99-104, first operand: redirectStdin && pipe(stdinFds) != 0.
PipeStdin ==
    /\ pc = "L99"
    /\ IF redirectStdin # 0
       THEN \E r \in PipeResults(pFd) :
              /\ pCalls' = Append(pCalls, Call("pipe", "stdin", -1, r.err, FALSE))
              /\ IF r.err = 0
                 THEN /\ stdinFds' = r.fds
                      /\ pFd' = OpenPipe(pFd, "stdin", r.fds)
                      /\ pc' = "L99b"
                      /\ UNCHANGED <<errno, success, failure>>
                 ELSE /\ errno' = r.err
                      /\ success' = FALSE
                      /\ failure' = [op |-> "pipe", err |-> r.err]
                      /\ pc' = "L167"
                      /\ UNCHANGED <<stdinFds, pFd>>
       ELSE /\ pc' = "L99b"
            /\ UNCHANGED <<pCalls, stdinFds, pFd, errno, success, failure>>
    /\ UNCHANGED <<reqVars, conc, childVars, mem, processId, stdoutFds, stderrFds, priorErrno, ret>>

\* Lines 99-104, second operand: redirectStdout && pipe(stdoutFds) != 0.
PipeStdout ==
    /\ pc = "L99b"
    /\ IF redirectStdout # 0
       THEN \E r \in PipeResults(pFd) :
              /\ pCalls' = Append(pCalls, Call("pipe", "stdout", -1, r.err, FALSE))
              /\ IF r.err = 0
                 THEN /\ stdoutFds' = r.fds
                      /\ pFd' = OpenPipe(pFd, "stdout", r.fds)
                      /\ pc' = "L100"
                      /\ UNCHANGED <<errno, success, failure>>
                 ELSE /\ errno' = r.err
                      /\ success' = FALSE
                      /\ failure' = [op |-> "pipe", err |-> r.err]
                      /\ pc' = "L167"
                      /\ UNCHANGED <<stdoutFds, pFd>>
       ELSE /\ pc' = "L100"
            /\ UNCHANGED <<pCalls, stdoutFds, pFd, errno, success, failure>>
    /\ UNCHANGED <<reqVars, conc, childVars, mem, processId, stdinFds, stderrFds, priorErrno, ret>>

\* Lines 99-104, third operand: redirectStderr && pipe(stderrFds) != 0.
PipeStderr ==
    /\ pc = "L100"
    /\ IF redirectStderr # 0
       THEN \E r \in PipeResults(pFd) :
              /\ pCalls' = Append(pCalls, Call("pipe", "stderr", -1, r.err, FALSE))
              /\ IF r.err = 0
                 THEN /\ stderrFds' = r.fds
                      /\ pFd' = OpenPipe(pFd, "stderr", r.fds)
                      /\ pc' = "L107"
                      /\ UNCHANGED <<errno, success, failure>>
                 ELSE /\ errno' = r.err
                      /\ success' = FALSE
                      /\ failure' = [op |-> "pipe", err |-> r.err]
                      /\ pc' = "L167"
                      /\ UNCHANGED <<stderrFds, pFd>>
       ELSE /\ pc' = "L107"
            /\ UNCHANGED <<pCalls, stderrFds, pFd, errno, success, failure>>
    /\ UNCHANGED <<reqVars, conc, childVars, mem, processId, stdinFds, stdoutFds, priorErrno, ret>>

\* Lines 107-113: fork(). On success the child starts at line 116 with a copy
\* of the parent's descriptor table and errno; its copies of the request and of
\* stdinFds, stdoutFds, stderrFds equal the parent's, which the parent never
\* changes after fork(), so both processes read the same variables here.
Fork ==
    /\ pc = "L107"
    /\ \/ \E pid \in Pids :
             /\ processId' = pid
             /\ pCalls' = Append(pCalls, Call("fork", "", -1, 0, FALSE))
             /\ pc' = "L161"
             /\ cPc' = "L116"
             /\ cFd' = pFd
             /\ cErrno' = errno
             /\ UNCHANGED <<errno, success, failure, cCalls, cStatus, eintr>>
       \/ \E e \in ForkErrnos :
             /\ processId' = -1
             /\ pCalls' = Append(pCalls, Call("fork", "", -1, e, FALSE))
             /\ errno' = e
             /\ success' = FALSE
             /\ failure' = [op |-> "fork", err |-> e]
             /\ pc' = "L167"
             /\ UNCHANGED childVars
    /\ UNCHANGED <<reqVars, conc, mem, stdinFds, stdoutFds, stderrFds, priorErrno, ret, pFd>>

\* *ptr = v; a store through a null pointer is handled where it can happen.
Store(m, ptr, v) == IF ptr = NULL THEN m ELSE [m EXCEPT ![ptr] = v]

\* Mutant: the parent hands back the child's ends.
CollectMem_WrongEnds ==
    Store(Store(Store(Store(mem, childPid, processId),
                      stdinFd, stdinFds[READ_END_OF_PIPE]),
                stdoutFd, stdoutFds[WRITE_END_OF_PIPE]),
          stderrFd, stderrFds[WRITE_END_OF_PIPE])

\* Lines 161-164: the parent records the child's pid and its own pipe ends.
CollectMem ==
    Store(Store(Store(Store(mem, childPid, processId),
                      stdinFd, stdinFds[WRITE_END_OF_PIPE]),
                stdoutFd, stdoutFds[READ_END_OF_PIPE]),
          stderrFd, stderrFds[READ_END_OF_PIPE])

ParentCollect ==
    /\ pc = "L161"
    /\ mem' = CollectMem
    /\ pc' = "L167"
    /\ UNCHANGED <<reqVars, conc, childVars, success, processId, stdinFds, stdoutFds, stderrFds,
                   priorErrno, errno, ret, pFd, pCalls, failure>>

\* Line 167: int priorErrno = errno.
Done ==
    /\ pc = "L167"
    /\ priorErrno' = errno
    /\ pc' = "L171"
    /\ UNCHANGED <<reqVars, conc, childVars, mem, success, processId, stdinFds, stdoutFds,
                   stderrFds, errno, ret, pFd, pCalls, failure>>

\* Lines 26-32 in the parent: close(fd) when fd >= 0; the result of close is
\* ignored, whatever it leaves in errno.
ParentCloseIfOpen(at, fd, next) ==
    /\ pc = at
    /\ pc' = next
    /\ IF fd >= 0
       THEN /\ pCalls' = Append(pCalls, Call("close", "", fd, 0, Held(pFd, fd)))
            /\ pFd' = CloseFd(pFd, fd)
            /\ IF Held(pFd, fd)
               THEN errno' \in {errno} \cup CloseErrnos
               ELSE errno' = EBADF
       ELSE UNCHANGED <<pCalls, pFd, errno>>
    /\ UNCHANGED <<reqVars, conc, childVars, mem, success, processId, stdinFds, stdoutFds,
                   stderrFds, priorErrno, ret, failure>>

\* Mutants: a CloseIfOpen of the cleanup is missing, or names the wrong end.
ParentSkip(at, next) ==
    /\ pc = at
    /\ pc' = next
    /\ UNCHANGED <<reqVars, conc, childVars, mem, success, processId, stdinFds, stdoutFds,
                   stderrFds, priorErrno, errno, ret, pFd, pCalls, failure>>
ParentClose171_Skipped == ParentSkip("L171", "L172")
ParentClose172_Skipped == ParentSkip("L172", "L173")
ParentClose178_Skipped == ParentSkip("L178", "L179")
ParentClose179_Again == ParentCloseIfOpen("L179", stdinFds[WRITE_END_OF_PIPE], "L180")

\* Lines 171-173.
ParentClose171 == ParentCloseIfOpen("L171", stdinFds[READ_END_OF_PIPE], "L172")
ParentClose172 == ParentCloseIfOpen("L172", stdoutFds[WRITE_END_OF_PIPE], "L173")
ParentClose173 == ParentCloseIfOpen("L173", stderrFds[WRITE_END_OF_PIPE], "L176")

\* Mutant: the parent waits for the child and reports its failure.
CheckSuccess_WaitsForChild ==
    /\ pc = "L176"
    /\ cPc \in {"none", "execd", "exited"}
    /\ IF success /\ cPc # "exited"
       THEN /\ ret' = 0
            /\ pc' = "returned"
       ELSE /\ pc' = "L178"
            /\ UNCHANGED ret
    /\ UNCHANGED <<reqVars, conc, childVars, mem, success, processId, stdinFds, stdoutFds,
                   stderrFds, priorErrno, errno, pFd, pCalls, failure>>

\* Lines 176 and 191: if (!success) ... else return 0.
CheckSuccess ==
    /\ pc = "L176"
    /\ IF success
       THEN /\ ret' = 0
            /\ pc' = "returned"
       ELSE /\ pc' = "L178"
            /\ UNCHANGED ret
    /\ UNCHANGED <<reqVars, conc, childVars, mem, success, processId, stdinFds, stdoutFds,
                   stderrFds, priorErrno, errno, pFd, pCalls, failure>>

\* Lines 178-180.
ParentClose178 == ParentCloseIfOpen("L178", stdinFds[WRITE_END_OF_PIPE], "L179")
ParentClose179 == ParentCloseIfOpen("L179", stdoutFds[READ_END_OF_PIPE], "L180")
ParentClose180 == ParentCloseIfOpen("L180", stderrFds[READ_END_OF_PIPE], "L182")

\* Lines 182-185: the stores in source order, stopping at the first null pointer.
RECURSIVE StoresUntilNull(_, _)
StoresUntilNull(m, ptrs) ==
    IF ptrs = <<>> \/ Head(ptrs) = NULL THEN m
    ELSE StoresUntilNull(Store(m, Head(ptrs), -1), Tail(ptrs))

NullOut == NULL \in {stdinFd, stdoutFd, stderrFd, childPid}

\* Mutant: errno is not restored after the cleanup.
RestoredErrno_Stale == errno

\* errno = priorErrno (line 187)
RestoredErrno == priorErrno

\* Lines 182-188. A store through a null out pointer is undefined: the process
\* is killed at that store, or the store has no effect and the call goes on.
FailReturn ==
    /\ pc = "L182"
    /\ \/ /\ NullOut
          /\ mem' = StoresUntilNull(mem, <<stdinFd, stdoutFd, stderrFd, childPid>>)
          /\ pc' = "crashed"
          /\ UNCHANGED <<errno, ret>>
       \/ /\ mem' = Store(Store(Store(Store(mem, stdinFd, -1), stdoutFd, -1),
                                stderrFd, -1), childPid, -1)
          /\ errno' = RestoredErrno
          /\ ret' = -1
          /\ pc' = "returned"
    /\ UNCHANGED <<reqVars, conc, childVars, success, processId, stdinFds, stdoutFds, stderrFds,
                   priorErrno, pFd, pCalls, failure>>

ParentStep ==
    \/ ValidateNull \/ ValidateRedirect \/ Access
    \/ PipeStdin \/ PipeStdout \/ PipeStderr \/ Fork
    \/ ParentCollect \/ Done
    \/ ParentClose171 \/ ParentClose172 \/ ParentClose173
    \/ CheckSuccess
    \/ ParentClose178 \/ ParentClose179 \/ ParentClose180
    \/ FailReturn

\* ------------------------------------------------------------- the child
\* Mutant: the child exits with EXIT_FAILURE whatever errno holds.
ExitCode_AlwaysFailure(e) == EXIT_FAILURE

\* _exit(errno != 0 ? errno : EXIT_FAILURE); the status a waiter sees is the
\* low eight bits.
ExitCode(e) == (IF e # 0 THEN e ELSE EXIT_FAILURE) % 256

NoFds == [i \in Fds |-> Closed]

\* Mutant: any set bit of the flags counts.
HasBit_AnyBit(flags, bit) == flags # 0

\* flags & bit, for a bit that is a power of two
HasBit(flags, bit) == (flags \div bit) % 2 = 1

\* Lines 26-32 in the child.
ChildCloseIfOpen(at, fd, next) ==
    /\ cPc = at
    /\ cPc' = next
    /\ IF fd >= 0
       THEN /\ cCalls' = Append(cCalls, Call("close", "", fd, 0, Held(cFd, fd)))
            /\ cFd' = CloseFd(cFd, fd)
            /\ IF Held(cFd, fd)
               THEN cErrno' \in {cErrno} \cup CloseErrnos
               ELSE cErrno' = EBADF
       ELSE UNCHANGED <<cCalls, cFd, cErrno>>
    /\ UNCHANGED <<reqVars, conc, parentVars, cStatus, eintr>>

\* Mutants: a CloseIfOpen of the child is missing.
ChildSkip(at, next) ==
    /\ cPc = at
    /\ cPc' = next
    /\ UNCHANGED <<reqVars, conc, parentVars, cCalls, cFd, cErrno, cStatus, eintr>>
ChildClose116_Skipped == ChildSkip("L116", "L117")
ChildClose129_Skipped == ChildSkip("L129", "L130")

\* Lines 116-118.
ChildClose116 == ChildCloseIfOpen("L116", stdinFds[WRITE_END_OF_PIPE], "L117")
ChildClose117 == ChildCloseIfOpen("L117", stdoutFds[READ_END_OF_PIPE], "L118")
ChildClose118 == ChildCloseIfOpen("L118", stderrFds[READ_END_OF_PIPE], "L122")

\* One operand of lines 122-127: flag && Dup2WithInterruptedRetry(oldfd, newfd) == -1,
\* with lines 42-47 and the _exit of line 126. Each dup2() call is one step: it
\* succeeds, is interrupted (and is called again), or fails and the child exits.
ChildDup2(at, flag, stream, oldfd, newfd, next) ==
    /\ cPc = at
    /\ IF flag # 0
       THEN \/ /\ Held(cFd, oldfd)
               /\ cCalls' = Append(cCalls, Call("dup2", stream, oldfd, 0, TRUE))
               /\ cFd' = Dup2Fd(cFd, oldfd, newfd)
               /\ cPc' = next
               /\ UNCHANGED <<cErrno, cStatus, eintr>>
            \/ /\ eintr < MaxEintr
               /\ eintr' = eintr + 1
               /\ cCalls' = Append(cCalls, Call("dup2", stream, oldfd, EINTR, Held(cFd, oldfd)))
               /\ cErrno' = EINTR
               /\ UNCHANGED <<cPc, cFd, cStatus>>
            \/ \E e \in (IF Held(cFd, oldfd) THEN Dup2Errnos ELSE {EBADF}) :
                 /\ cCalls' = Append(cCalls, Call("dup2", stream, oldfd, e, Held(cFd, oldfd)))
                 /\ cErrno' = e
                 /\ cStatus' = ExitCode(e)
                 /\ cFd' = NoFds
                 /\ cPc' = "exited"
                 /\ UNCHANGED eintr
       ELSE /\ cPc' = next
            /\ UNCHANGED <<cCalls, cFd, cErrno, cStatus, eintr>>
    /\ UNCHANGED <<reqVars, conc, parentVars>>

ChildDup2Stdin ==
    ChildDup2("L122", redirectStdin, "stdin", stdinFds[READ_END_OF_PIPE], STDIN_FILENO, "L123")
ChildDup2Stdout ==
    ChildDup2("L123", redirectStdout, "stdout", stdoutFds[WRITE_END_OF_PIPE], STDOUT_FILENO, "L124")
ChildDup2Stderr ==
    ChildDup2("L124", redirectStderr, "stderr", stderrFds[WRITE_END_OF_PIPE], STDERR_FILENO, "L128")

\* Lines 128-130.
ChildClose128 == ChildCloseIfOpen("L128", stdinFds[READ_END_OF_PIPE], "L129")
ChildClose129 == ChildCloseIfOpen("L129", stdoutFds[WRITE_END_OF_PIPE], "L130")
ChildClose130 == ChildCloseIfOpen("L130", stderrFds[WRITE_END_OF_PIPE], "L133")

\* Mutant: no retry loop, an interrupted call ends the child like any failure.
ChildSyscall_NoRetry(at, wanted, op, errnos, next) ==
    /\ cPc = at
    /\ IF wanted
       THEN \/ /\ cCalls' = Append(cCalls, Call(op, "", -1, 0, FALSE))
               /\ cPc' = next
               /\ UNCHANGED <<cErrno, cStatus, cFd, eintr>>
            \/ \E e \in errnos \cup (IF eintr < MaxEintr THEN {EINTR} ELSE {}) :
                 /\ cCalls' = Append(cCalls, Call(op, "", -1, e, FALSE))
                 /\ cErrno' = e
                 /\ cStatus' = (IF e # 0 THEN e ELSE EXIT_FAILURE) % 256
                 /\ cFd' = [i \in Fds |-> Closed]
                 /\ cPc' = "exited"
                 /\ eintr' = IF e = EINTR THEN eintr + 1 ELSE eintr
       ELSE /\ cPc' = next
            /\ UNCHANGED <<cCalls, cFd, cErrno, cStatus, eintr>>
    /\ UNCHANGED <<reqVars, conc, parentVars>>

\* A system call of the child that touches no descriptor (chdir, setsid):
\* wanted && the call, retried while interrupted, _exit on any other failure.
ChildSyscall(at, wanted, op, errnos, next) ==
    /\ cPc = at
    /\ IF wanted
       THEN \/ /\ cCalls' = Append(cCalls, Call(op, "", -1, 0, FALSE))
               /\ cPc' = next
               /\ UNCHANGED <<cErrno, cStatus, cFd, eintr>>
            \/ /\ eintr < MaxEintr
               /\ eintr' = eintr + 1
               /\ cCalls' = Append(cCalls, Call(op, "", -1, EINTR, FALSE))
               /\ cErrno' = EINTR
               /\ UNCHANGED <<cPc, cFd, cStatus>>
            \/ \E e \in errnos :
                 /\ cCalls' = Append(cCalls, Call(op, "", -1, e, FALSE))
                 /\ cErrno' = e
                 /\ cStatus' = ExitCode(e)
                 /\ cFd' = NoFds
                 /\ cPc' = "exited"
                 /\ UNCHANGED eintr
       ELSE /\ cPc' = next
            /\ UNCHANGED <<cCalls, cFd, cErrno, cStatus, eintr>>
    /\ UNCHANGED <<reqVars, conc, parentVars>>

\* Mutant: a failed chdir does not end the child.
ChildChdir_GoesOn ==
    /\ cPc = "L133"
    /\ IF cwd # NULL
       THEN \E e \in {0} \cup ChdirErrnos :
              /\ cCalls' = Append(cCalls, Call("chdir", "", -1, e, FALSE))
              /\ cErrno' = IF e = 0 THEN cErrno ELSE e
              /\ cPc' = "L145"
              /\ UNCHANGED <<cStatus, cFd, eintr>>
       ELSE /\ cPc' = "L145"
            /\ UNCHANGED <<cCalls, cFd, cErrno, cStatus, eintr>>
    /\ UNCHANGED <<reqVars, conc, parentVars>>

\* Lines 133-141.
ChildChdir == ChildSyscall("L133", cwd # NULL, "chdir", ChdirErrnos, "L145")

\* Lines 145-153.
SetsidFor(flags) ==
    ChildSyscall("L145", HasBit(flags, CREATE_NEW_PROCESS_SESSION), "setsid",
                 SetsidErrnos, "L156")
ChildSetsid == SetsidFor(creationFlags)

\* Mutant: the _exit after a failed execve is missing and the child goes on
\* to the lines after the if block.
ChildExecve_FallsThrough ==
    /\ cPc = "L156"
    /\ \/ /\ cCalls' = Append(cCalls, Call("execve", "", -1, 0, FALSE))
          /\ cPc' = "execd"
          /\ UNCHANGED <<cErrno, cStatus, cFd>>
       \/ \E e \in ExecErrnos :
             /\ cCalls' = Append(cCalls, Call("execve", "", -1, e, FALSE))
             /\ cErrno' = e
             /\ cPc' = "L161"
             /\ UNCHANGED <<cStatus, cFd>>
    /\ UNCHANGED <<reqVars, conc, parentVars, eintr>>

\* Lines 156-157: execve replaces the program and keeps the descriptor table,
\* or fails and the child exits.
ChildExecve ==
    /\ cPc = "L156"
    /\ \/ /\ cCalls' = Append(cCalls, Call("execve", "", -1, 0, FALSE))
          /\ cPc' = "execd"
          /\ UNCHANGED <<cErrno, cStatus, cFd>>
       \/ \E e \in ExecErrnos :
             /\ cCalls' = Append(cCalls, Call("execve", "", -1, e, FALSE))
             /\ cErrno' = e
             /\ cStatus' = ExitCode(e)
             /\ cFd' = NoFds
             /\ cPc' = "exited"
    /\ UNCHANGED <<reqVars, conc, parentVars, eintr>>

ChildStep ==
    \/ ChildClose116 \/ ChildClose117 \/ ChildClose118
    \/ ChildDup2Stdin \/ ChildDup2Stdout \/ ChildDup2Stderr
    \/ ChildClose128 \/ ChildClose129 \/ ChildClose130
    \/ ChildChdir \/ ChildSetsid \/ ChildExecve

Next == ParentStep \/ ChildStep

Spec == Init /\ [][Next]_vars

TypeOK ==
    /\ pc \in {"L70", "L79", "L92", "L99", "L99b", "L100", "L107", "L161", "L167", "L171",
               "L172", "L173", "L176", "L178", "L179", "L180", "L182",
               "returned", "aborted", "crashed"}
    /\ cPc \in {"none", "L116", "L117", "L118", "L122", "L123", "L124", "L128", "L129",
                "L130", "L133", "L145", "L156", "execd", "exited"}
    /\ ret \in {0, -1}

\* ------------------------------------------------------------ properties
\* Descriptors of the parent that refer to a pipe end created by this call.
ParentPipeFds == {i \in Fds : pFd[i] \in PipeObjs}
\* The out pointers that point somewhere.
OutCells == {childPid, stdinFd, stdoutFd, stderrFd} \ {NULL}
Returned(r) == pc = "returned" /\ ret = r
PCallIs(i, ops) == pCalls[i].op \in ops
Failed(op) == \E i \in DOMAIN pCalls : pCalls[i].op = op /\ pCalls[i].err # 0
NumFlags == redirectStdin + redirectStdout + redirectStderr

\* C1: when the call returns -1, whichever operation failed, no descriptor
\* that pipe() created during the call is open in the parent and every out
\* cell (*childPid, *stdinFd, *stdoutFd, *stderrFd) holds -1.
C1_FailureReleasesAll ==
    Returned(-1) =>
        /\ ParentPipeFds = {}
        /\ pFd = fd0
        /\ \A p \in OutCells : mem[p] = -1

\* C1 witness: fork() failed after all three pipes were allocated and the call
\* has returned -1.
C1_Witness ==
    /\ Returned(-1)
    /\ Failed("fork")
    /\ stdinFds[READ_END_OF_PIPE] >= 0
    /\ stdoutFds[READ_END_OF_PIPE] >= 0
    /\ stderrFds[READ_END_OF_PIPE] >= 0

\* C2: when the call returns 0, the out descriptors different from -1 are as
\* many as the flags set; *stdinFd is the open write end of the stdin pipe iff
\* redirectStdin is 1, *stdoutFd and *stderrFd the open read ends of their
\* pipes iff their flag is 1, every other one is -1, and *childPid > 0.
C2_SuccessHandsBackRequestedEnds ==
    Returned(0) =>
        /\ Cardinality({p \in {stdinFd, stdoutFd, stderrFd} : mem[p] # -1}) = NumFlags
        /\ IF redirectStdin = 1
           THEN Held(pFd, mem[stdinFd]) /\ pFd[mem[stdinFd]] = "stdinW"
           ELSE mem[stdinFd] = -1
        /\ IF redirectStdout = 1
           THEN Held(pFd, mem[stdoutFd]) /\ pFd[mem[stdoutFd]] = "stdoutR"
           ELSE mem[stdoutFd] = -1
        /\ IF redirectStderr = 1
           THEN Held(pFd, mem[stderrFd]) /\ pFd[mem[stderrFd]] = "stderrR"
           ELSE mem[stderrFd] = -1
        /\ mem[childPid] > 0

\* C2 witness: a successful return with stdin and stderr redirected, stdout not.
C2_Witness ==
    /\ Returned(0)
    /\ redirectStdin = 1 /\ redirectStdout = 0 /\ redirectStderr = 1
    /\ mem[stdinFd] >= 0 /\ mem[stdoutFd] = -1 /\ mem[stderrFd] >= 0

\* C3: when a successful call returns, the pipe descriptors open in the parent
\* are exactly those returned through the out pointers: the stdin read end and
\* the stdout and stderr write ends are closed in the parent.
C3_ParentKeepsExactlyReturnedEnds ==
    Returned(0) =>
        /\ ParentPipeFds = {mem[stdinFd], mem[stdoutFd], mem[stderrFd]} \ {-1}
        /\ \A i \in Fds : pFd[i] \notin {"stdinR", "stdoutW", "stderrW"}
        /\ \A i \in Fds \ ParentPipeFds : pFd[i] = fd0[i]

\* C3 witness: a successful return with all three streams redirected.
C3_Witness ==
    /\ Returned(0)
    /\ NumFlags = 3
    /\ Cardinality(ParentPipeFds) = 3

\* C4: when the child calls execve, for every requested redirection and every
\* descriptor table of the caller, slot 0 is the read end of the stdin pipe,
\* slot 1 the write end of the stdout pipe, slot 2 the write end of the stderr pipe.
C4_ChildSlotsAtExecve ==
    cPc \in {"L156", "execd"} =>
        /\ redirectStdin = 1 => cFd[STDIN_FILENO] = "stdinR"
        /\ redirectStdout = 1 => cFd[STDOUT_FILENO] = "stdoutW"
        /\ redirectStderr = 1 => cFd[STDERR_FILENO] = "stderrW"

\* The close calls of a trace: each on a descriptor the process held, no
\* descriptor number twice.
ClosesOnceAndHeld(calls) ==
    \A i \in DOMAIN calls :
        calls[i].op = "close" =>
            /\ calls[i].held
            /\ \A j \in DOMAIN calls :
                  (j # i /\ calls[j].op = "close") => calls[j].fd # calls[i].fd

\* C5: in the parent and in the child, each descriptor number is passed to
\* close() at most once by the process, and only while the process holds it open.
C5_CloseAtMostOnce ==
    ClosesOnceAndHeld(pCalls) /\ ClosesOnceAndHeld(cCalls)

\* C5 witness: the parent closed all six pipe descriptors after a failed fork(),
\* or the child closed all six of its copies before execve.
C5_Witness ==
    \/ /\ Returned(-1)
       /\ Cardinality({i \in DOMAIN pCalls : pCalls[i].op = "close"}) = 6
    \/ /\ cPc = "execd"
       /\ Cardinality({i \in DOMAIN cCalls : cCalls[i].op = "close"}) = 6

\* C6: with filename, argv or envp null, or a redirect flag other than 0 or 1,
\* the call makes no system call (no access, pipe, fork, close), creates no
\* process, leaves the descriptor table as it was, and returns -1 with EINVAL.
InvalidInput ==
    \/ NULL \in {filename, argv, envp}
    \/ \E f \in {redirectStdin, redirectStdout, redirectStderr} : f \notin {0, 1}
C7_AccessPreflight ==
    /\ \A i \in DOMAIN pCalls :
          PCallIs(i, {"pipe", "fork"}) =>
              \E j \in 1..(i - 1) : pCalls[j].op = "access" /\ pCalls[j].err = 0
    /\ Failed("access") =>
          /\ \A i \in DOMAIN pCalls : ~PCallIs(i, {"pipe", "fork"})
          /\ cPc = "none"
          /\ pFd = fd0
          /\ pc = "returned" =>
                /\ ret = -1
                /\ \E i \in DOMAIN pCalls : pCalls[i].op = "access" /\ errno = pCalls[i].err

\* C7 witness: access() failed with EACCES and the call has returned.
C7_Witness ==
    /\ Failed("access")
    /\ Returned(-1)
    /\ errno = EACCES

\* The streams whose flag is set, in the order stdin, stdout, stderr.
Requested ==
    (IF redirectStdin # 0 THEN <<"stdin">> ELSE <<>>)
    \o (IF redirectStdout # 0 THEN <<"stdout">> ELSE <<>>)
    \o (IF redirectStderr # 0 THEN <<"stderr">> ELSE <<>>)
IsPipeCall(c) == c.op = "pipe"
PipeCalls == SelectSeq(pCalls, IsPipeCall)

\* C8: pipe() is called for the requested streams in the order stdin, stdout,
\* stderr; after a failed pipe() there is no further pipe() and no fork(), and
\* the call returns -1 with every earlier pipe end closed and all outs -1.
C8_PipeFailureAborts ==
    /\ Len(PipeCalls) <= Len(Requested)
    /\ \A k \in DOMAIN PipeCalls : PipeCalls[k].stream = Requested[k]
    /\ \A i \in DOMAIN pCalls :
          (pCalls[i].op = "pipe" /\ pCalls[i].err # 0) =>
              \A j \in (i + 1)..Len(pCalls) : pCalls[j].op = "close"
    /\ Failed("pipe") =>
          /\ cPc = "none"
          /\ pc = "returned" =>
                /\ ret = -1
                /\ ParentPipeFds = {}
                /\ Cardinality({i \in DOMAIN pCalls : pCalls[i].op = "close"})
                      = 2 * (Len(PipeCalls) - 1)
                /\ \A p \in OutCells : mem[p] = -1

\* C8 witness: the third pipe() failed after two succeeded, and the call returned.
C8_Witness ==
    /\ Len(PipeCalls) = 3
    /\ PipeCalls[3].err # 0
    /\ Returned(-1)

\* C9: when the call returns -1, errno is the errno set by the operation that
\* failed first, whatever the close() calls of the cleanup left in errno.
C9_ErrnoOfOriginalFailure ==
    Returned(-1) => (failure.err # 0 /\ errno = failure.err)

\* C9 witness: fork() failed with ENOMEM, the cleanup closed descriptors, and
\* the call returned.
C9_Witness ==
    /\ Returned(-1)
    /\ failure = [op |-> "fork", err |-> ENOMEM]
    /\ \E i \in DOMAIN pCalls : pCalls[i].op = "close"

\* C10: once fork() has succeeded the parent's call returns 0 with *childPid
\* the child's pid and the parent-side pipe ends, wherever the child is and
\* whether it has reached execve or has exited with an error.
C10_ParentResultIndependentOfChild ==
    (processId > 0 /\ pc = "returned") =>
        /\ ret = 0
        /\ mem[childPid] = processId
        /\ mem[stdinFd] = stdinFds[WRITE_END_OF_PIPE]
        /\ mem[stdoutFd] = stdoutFds[READ_END_OF_PIPE]
        /\ mem[stderrFd] = stderrFds[READ_END_OF_PIPE]

\* C10 witness: the parent has returned while the child has not taken a step.
C10_Witness ==
    /\ pc = "returned"
    /\ processId > 0
    /\ cPc = "L116"
    /\ cCalls = <<>>

\* The place of a system call of the child in the order of lines 116-156.
StepRank(c) ==
    CASE c.op = "close" /\ c.fd = stdinFds[WRITE_END_OF_PIPE] -> 1
      [] c.op = "close" /\ c.fd = stdoutFds[READ_END_OF_PIPE] -> 2
      [] c.op = "close" /\ c.fd = stderrFds[READ_END_OF_PIPE] -> 3
      [] c.op = "dup2" /\ c.stream = "stdin" -> 4
      [] c.op = "dup2" /\ c.stream = "stdout" -> 5
      [] c.op = "dup2" /\ c.stream = "stderr" -> 6
      [] c.op = "close" /\ c.fd = stdinFds[READ_END_OF_PIPE] -> 7
      [] c.op = "close" /\ c.fd = stdoutFds[WRITE_END_OF_PIPE] -> 8
      [] c.op = "close" /\ c.fd = stderrFds[WRITE_END_OF_PIPE] -> 9
      [] c.op = "chdir" -> 10
      [] c.op = "setsid" -> 11
      [] c.op = "execve" -> 12
      [] OTHER -> 0
\* The ranks of the calls that succeeded.
DoneRanks == {StepRank(cCalls[i]) : i \in {j \in DOMAIN cCalls : cCalls[j].err = 0}}
\* The ranks the request asks for before execve.
WantedRanks ==
    (IF redirectStdin = 1 THEN {1, 4, 7} ELSE {})
    \cup (IF redirectStdout = 1 THEN {2, 5, 8} ELSE {})
    \cup (IF redirectStderr = 1 THEN {3, 6, 9} ELSE {})
    \cup (IF cwd # NULL THEN {10} ELSE {})
    \cup (IF creationFlags % 2 = 1 THEN {11} ELSE {})

\* C11: the child's calls come in the order close parent ends, dup2 onto 0, 1,
\* 2, close child ends, chdir (only with a cwd), setsid (only with the flag),
\* execve; an interrupted call is repeated; a call that fails otherwise is the
\* child's last call and the child has exited; execve is called only after
\* every step the request asks for has succeeded.
C11_ChildStepOrder ==
    /\ \A i \in DOMAIN cCalls : StepRank(cCalls[i]) # 0
    /\ \A i \in 1..(Len(cCalls) - 1) :
          IF cCalls[i].err = EINTR
          THEN StepRank(cCalls[i + 1]) = StepRank(cCalls[i])
          ELSE cCalls[i].err = 0 /\ StepRank(cCalls[i + 1]) > StepRank(cCalls[i])
    /\ DoneRanks \ {12} \subseteq WantedRanks
    /\ (\E i \in DOMAIN cCalls : cCalls[i].op = "execve") => WantedRanks \subseteq DoneRanks
    /\ (cCalls # <<>> /\ cCalls[Len(cCalls)].err \notin {0, EINTR}) => cPc = "exited"

\* C11 witness: the child reached execve after all eleven earlier steps.
C11_Witness ==
    /\ cPc = "execd"
    /\ DoneRanks = 1..12

\* C12: the child's control stays within lines 116-157: until it has replaced
\* its program or exited it always has a next step there, and it never comes
\* to the parent's lines 161-191, so it stores to no out cell and returns nothing.
C12_ChildNeverReturns ==
    /\ cPc \in {"none", "L116", "L117", "L118", "L122", "L123", "L124", "L128", "L129",
                "L130", "L133", "L145", "L156", "execd", "exited"}
    /\ cPc \notin {"none", "execd", "exited"} => ENABLED ChildStep
    /\ cPc # "none" => processId > 0
    /\ pc = "L161" => mem = [n \in OutNames |-> Garbage]

\* C12 witness: execve failed and the child exited while the parent is still
\* before its own stores of lines 161-164.
C12_Witness ==
    /\ cPc = "exited"
    /\ cCalls[Len(cCalls)].op = "execve"
    /\ pc = "L161"
    /\ mem = [n \in OutNames |-> Garbage]

\* The child is scheduled and each of its system calls returns: a child that
\* can take a step eventually takes one. The interruptions are finitely many
\* (at most MaxEintr).
\* The requests of LiveSpec: every valid request with descriptors 1 and 2 open
\* at call time, and the invalid requests with no cwd and no creation flag.
LiveInit ==
    /\ Init
    /\ fd0[STDOUT_FILENO] # Closed
    /\ fd0[STDERR_FILENO] # Closed
    /\ (NullArgument \/ BadRedirect) =>
          (cwd = NULL /\ creationFlags = 0 /\ fd0[STDIN_FILENO] # Closed)
LiveSpec == LiveInit /\ [][Next]_vars /\ WF_vars(ChildStep)

\* C13: a dup2, chdir or setsid interrupted by a signal is called again and
\* EINTR is never the child's exit status; with finitely many interruptions
\* the child, once created, eventually calls execve or exits with the errno of
\* a failure other than EINTR.
C13_InterruptedCallsRetried ==
    /\ [](\A i \in DOMAIN cCalls :
            cCalls[i].err = EINTR =>
                /\ cCalls[i].op \in {"dup2", "chdir", "setsid"}
                /\ i = Len(cCalls) => cPc \notin {"execd", "exited"}
                /\ i < Len(cCalls) =>
                      (cCalls[i + 1].op = cCalls[i].op /\ cCalls[i + 1].stream = cCalls[i].stream))
    /\ [](cPc = "exited" =>
            /\ cStatus # EINTR
            /\ cCalls[Len(cCalls)].err \notin {0, EINTR}
            /\ cStatus = cCalls[Len(cCalls)].err)
    /\ (cPc = "L116") ~> (cPc \in {"execd", "exited"})

\* C13 witness: the child reached execve although a call of it was interrupted.
C13_Witness ==
    /\ cPc = "execd"
    /\ \E i \in DOMAIN cCalls : cCalls[i].err = EINTR

\* C14: a child that has exited did so because a dup2, chdir, setsid or execve
\* failed, and its exit status is the errno of that call (EXIT_FAILURE were
\* that errno 0), hence never 0.
C14_AbortStatusIsErrno ==
    cPc = "exited" =>
        /\ cCalls[Len(cCalls)].op \in {"dup2", "chdir", "setsid", "execve"}
        /\ cCalls[Len(cCalls)].err # 0
        /\ cStatus = cCalls[Len(cCalls)].err
        /\ cStatus = cErrno
        /\ cStatus # 0

\* C14 witness: chdir failed with ENOENT and the child exited with status ENOENT.
C14_Witness ==
    /\ cPc = "exited"
    /\ cCalls[Len(cCalls)].op = "chdir"
    /\ cStatus = ENOENT

\* The slots the request redirects.
RequestedSlots ==
    (IF redirectStdin = 1 THEN {STDIN_FILENO} ELSE {})
    \cup (IF redirectStdout = 1 THEN {STDOUT_FILENO} ELSE {})
    \cup (IF redirectStderr = 1 THEN {STDERR_FILENO} ELSE {})

\* C15: when the child reaches execve, for every descriptor table of the
\* caller, the only descriptors of the child that refer to a pipe of this call
\* are standard-stream slots of requested redirections: the parent-side ends
\* and the original child-side descriptors are closed in the child.
C15_ChildHoldsOnlySlots ==
    cPc \in {"L156", "execd"} =>
        /\ {i \in Fds : cFd[i] \in PipeObjs} \subseteq RequestedSlots
        /\ \A i \in Fds : cFd[i] \notin {"stdinW", "stdoutR", "stderrR"}
        /\ \A i \in Fds \ RequestedSlots : cFd[i] = fd0[i]

\* C15 witness: the child is at execve with all three streams redirected from
\* a table in which descriptor 1 was closed at call time.
C15_Witness ==
    /\ cPc = "execd"
    /\ NumFlags = 3
    /\ fd0[STDOUT_FILENO] = Closed

\* ------------------------------------- two invocations in two threads
\* Two threads of one process call ForkAndExecProcess at the same time. They
\* share the process's descriptor table conc.tab; each has its own locals
\* (conc.th[t]) and, after fork(), its own child (conc.ch[t]) whose table is
\* the copy of conc.tab taken by fork(). Both requests are valid, name an
\* executable access() accepts, and have no cwd and no creation flag, so each
\* thread starts at line 99 and its child goes from line 130 to line 156.
Threads == {1, 2}
ThreadName(t) == IF t = 1 THEN "A." ELSE "B."
\* The pipe of stream k of thread t.
ConcStream(t, k) == ThreadName(t) \o Streams[k]
ConcPipeObjs(t) ==
    {PipeEnd(ConcStream(t, k), e) : k \in 1..3, e \in {READ_END_OF_PIPE, WRITE_END_OF_PIPE}}
\* The redirect flags <<stdin, stdout, stderr>> of a thread's request.
ConcFlags == {<<0, 1, 0>>, <<1, 0, 1>>}
baseVars == <<reqVars, parentVars, childVars>>

ConcThread(flags) ==
    [pc |-> "L99", flags |-> flags, fds |-> [k \in 1..3 |-> NoPipe], ok |-> TRUE]
ConcNoChild == [pc |-> "none", tab |-> [i \in Fds |-> Closed]]

ConcInit ==
    /\ filename = "filename" /\ argv = "argv" /\ envp = "envp" /\ cwd = NULL
    /\ redirectStdin = 0 /\ redirectStdout = 0 /\ redirectStderr = 0
    /\ creationFlags = 0
    /\ childPid = "childPid" /\ stdinFd = "stdinFd"
    /\ stdoutFd = "stdoutFd" /\ stderrFd = "stderrFd"
    /\ mem = [n \in OutNames |-> Garbage]
    /\ success = TRUE /\ processId = -1
    /\ stdinFds = NoPipe /\ stdoutFds = NoPipe /\ stderrFds = NoPipe
    /\ priorErrno = 0 /\ pc = "L70" /\ errno = 0 /\ ret = 0
    /\ fd0 = [i \in Fds |-> IF i <= STDERR_FILENO THEN Inherited[i + 1] ELSE Closed]
    /\ pFd = fd0
    /\ pCalls = <<>> /\ failure = NoFailure
    /\ cPc = "none" /\ cErrno = 0 /\ cFd = [i \in Fds |-> Closed]
    /\ cCalls = <<>> /\ cStatus = -1 /\ eintr = 0
    /\ \E fa \in ConcFlags, fb \in ConcFlags :
          conc = [tab |-> fd0,
                  th |-> <<ConcThread(fa), ConcThread(fb)>>,
                  ch |-> <<ConcNoChild, ConcNoChild>>]

\* Lines 99-104 in thread t: the pipe() of stream k, when its flag is set.
ConcPipeLines == <<"L99", "L99b", "L100", "L107">>
ConcPipe(t) ==
    /\ \E k \in 1..3 :
          /\ conc.th[t].pc = ConcPipeLines[k]
          /\ IF conc.th[t].flags[k] # 0
             THEN \E r \in PipeResults(conc.tab) :
                    IF r.err = 0
                    THEN conc' = [conc EXCEPT
                                    !.tab = OpenPipe(conc.tab, ConcStream(t, k), r.fds),
                                    !.th[t].fds[k] = r.fds,
                                    !.th[t].pc = ConcPipeLines[k + 1]]
                    ELSE conc' = [conc EXCEPT !.th[t].ok = FALSE, !.th[t].pc = "L171"]
             ELSE conc' = [conc EXCEPT !.th[t].pc = ConcPipeLines[k + 1]]
    /\ UNCHANGED baseVars

\* Lines 107-113 in thread t: the child gets a copy of the process's table as
\* it is at that moment, whatever the other thread has opened in it.
ConcFork(t) ==
    /\ conc.th[t].pc = "L107"
    /\ \/ conc' = [conc EXCEPT !.th[t].pc = "L161",
                               !.ch[t] = [pc |-> "L116", tab |-> conc.tab]]
       \/ conc' = [conc EXCEPT !.th[t].ok = FALSE, !.th[t].pc = "L171"]
    /\ UNCHANGED baseVars

\* Lines 161-167 in thread t: stores to the thread's own out cells.
ConcCollect(t) ==
    /\ conc.th[t].pc = "L161"
    /\ conc' = [conc EXCEPT !.th[t].pc = "L171"]
    /\ UNCHANGED baseVars

\* The CloseIfOpen calls of the parent: line, stream, end, next line.
ConcParentCloses ==
    {<<"L171", 1, READ_END_OF_PIPE, "L172">>, <<"L172", 2, WRITE_END_OF_PIPE, "L173">>,
     <<"L173", 3, WRITE_END_OF_PIPE, "L176">>, <<"L178", 1, WRITE_END_OF_PIPE, "L179">>,
     <<"L179", 2, READ_END_OF_PIPE, "L180">>, <<"L180", 3, READ_END_OF_PIPE, "returned">>}
\* Lines 171-173 and 178-180 in thread t.
ConcParentClose(t) ==
    /\ \E c \in ConcParentCloses :
          /\ conc.th[t].pc = c[1]
          /\ conc' = [conc EXCEPT !.tab = CloseFd(conc.tab, conc.th[t].fds[c[2]][c[3]]),
                                  !.th[t].pc = c[4]]
    /\ UNCHANGED baseVars

\* Lines 176 and 191 in thread t.
ConcCheckSuccess(t) ==
    /\ conc.th[t].pc = "L176"
    /\ conc' = [conc EXCEPT !.th[t].pc = IF conc.th[t].ok THEN "returned" ELSE "L178"]
    /\ UNCHANGED baseVars

\* The CloseIfOpen calls of the child: line, stream, end, next line.
ConcChildCloses ==
    {<<"L116", 1, WRITE_END_OF_PIPE, "L117">>, <<"L117", 2, READ_END_OF_PIPE, "L118">>,
     <<"L118", 3, READ_END_OF_PIPE, "L122">>, <<"L128", 1, READ_END_OF_PIPE, "L129">>,
     <<"L129", 2, WRITE_END_OF_PIPE, "L130">>, <<"L130", 3, WRITE_END_OF_PIPE, "L156">>}
\* Lines 116-118 and 128-130 in the child of thread t.
ConcChildClose(t) ==
    /\ \E c \in ConcChildCloses :
          /\ conc.ch[t].pc = c[1]
          /\ conc' = [conc EXCEPT
                        !.ch[t].tab = CloseFd(conc.ch[t].tab, conc.th[t].fds[c[2]][c[3]]),
                        !.ch[t].pc = c[4]]
    /\ UNCHANGED baseVars

\* The dup2 calls of the child: line, stream, end, slot, next line.
ConcChildDup2s ==
    {<<"L122", 1, READ_END_OF_PIPE, STDIN_FILENO, "L123">>,
     <<"L123", 2, WRITE_END_OF_PIPE, STDOUT_FILENO, "L124">>,
     <<"L124", 3, WRITE_END_OF_PIPE, STDERR_FILENO, "L128">>}
\* Lines 122-127 in the child of thread t. An interrupted dup2 is called
\* again and leaves the table as it is, so it is no step here.
ConcChildDup2(t) ==
    /\ \E c \in ConcChildDup2s :
          /\ conc.ch[t].pc = c[1]
          /\ IF conc.th[t].flags[c[2]] # 0
             THEN \/ /\ Held(conc.ch[t].tab, conc.th[t].fds[c[2]][c[3]])
                     /\ conc' = [conc EXCEPT
                                   !.ch[t].tab = Dup2Fd(conc.ch[t].tab,
                                                        conc.th[t].fds[c[2]][c[3]], c[4]),
                                   !.ch[t].pc = c[5]]
                  \/ conc' = [conc EXCEPT !.ch[t] = [pc |-> "exited",
                                                     tab |-> [i \in Fds |-> Closed]]]
             ELSE conc' = [conc EXCEPT !.ch[t].pc = c[5]]
    /\ UNCHANGED baseVars

\* Lines 156-157 in the child of thread t.
ConcChildExecve(t) ==
    /\ conc.ch[t].pc = "L156"
    /\ \/ conc' = [conc EXCEPT !.ch[t].pc = "execd"]
       \/ conc' = [conc EXCEPT !.ch[t] = [pc |-> "exited", tab |-> [i \in Fds |-> Closed]]]
    /\ UNCHANGED baseVars

ConcNext ==
    \E t \in Threads :
        \/ ConcPipe(t) \/ ConcFork(t) \/ ConcCollect(t)
        \/ ConcParentClose(t) \/ ConcCheckSuccess(t)
        \/ ConcChildClose(t) \/ ConcChildDup2(t) \/ ConcChildExecve(t)

ConcSpec == ConcInit /\ [][ConcNext]_vars

\* C16: with two invocations running in two threads, in every interleaving
\* the child of one invocation holds, when it reaches execve, no descriptor
\* of a pipe end the other invocation allocated.
C16_NoForeignPipeInChild ==
    \A t \in Threads :
        conc.ch[t].pc \in {"L156", "execd"} =>
            \A i \in Fds : conc.ch[t].tab[i] \notin ConcPipeObjs(3 - t)

\* Values of creationFlags that agree with f on bit 0x1 and differ elsewhere.
SameSessionBit(f) == {g \in 0..(2 * CREATE_NEW_PROCESS_SESSION + 5) : g % 2 = f % 2}
SetsidCalled == \E i \in DOMAIN cCalls : cCalls[i].op = "setsid"

\* C17: the child calls setsid iff bit 0x1 of creationFlags is set, and the
\* step of lines 145-153, the only one that reads creationFlags, is the same
\* step for every value of creationFlags with the same bit 0x1: the other bits
\* change neither the steps nor their results.
C17_OnlySessionBitRead ==
    /\ [][ChildSetsid =>
            /\ (cCalls' # cCalls) <=> (creationFlags % 2 = 1)
            /\ \A g \in SameSessionBit(creationFlags) : SetsidFor(g)]_vars
    /\ [](SetsidCalled => creationFlags % 2 = 1)
    /\ [](cPc \in {"L156", "execd"} => (SetsidCalled <=> creationFlags % 2 = 1))

\* C17 witness: with creationFlags = 2 the child reached execve without setsid.
C17_Witness ==
    /\ creationFlags = 2
    /\ cPc = "execd"
    /\ ~SetsidCalled

\* C18: a call with a null out pointer is rejected like any invalid argument:
\* no store through the null pointer takes the process down, and the call
\* returns -1 with errno EINVAL.
C18_NullOutRejected ==
    NullOut =>
        /\ pc # "crashed"
        /\ pc = "returned" => (ret = -1 /\ errno = EINVAL)

\* The descriptors of a table that refer to the given open file description.
FdsOf(tab, obj) == {i \in Fds : tab[i] = obj}

\* C19: once a successful call has returned and the child has reached execve
\* or exited, the only open write ends of the stdout and stderr pipes are the
\* child's slots 1 and 2 (none once the child has exited, or closed them), and
\* the only open write end of the stdin pipe is the descriptor returned to the
\* parent: readers of the returned descriptors and the child's stdin get
\* end-of-stream when those are closed.
C19_NoStrayWriteEnds ==
    (Returned(0) /\ cPc \in {"execd", "exited"}) =>
        /\ FdsOf(pFd, "stdoutW") = {} /\ FdsOf(pFd, "stderrW") = {}
        /\ FdsOf(cFd, "stdoutW") \subseteq {STDOUT_FILENO}
        /\ FdsOf(cFd, "stderrW") \subseteq {STDERR_FILENO}
        /\ cPc = "exited" => (FdsOf(cFd, "stdoutW") = {} /\ FdsOf(cFd, "stderrW") = {})
        /\ FdsOf(cFd, "stdinW") = {}
        /\ FdsOf(pFd, "stdinW") = (IF redirectStdin = 1 THEN {mem[stdinFd]} ELSE {})

\* C19 witness: the call returned 0 with all three streams redirected and the
\* child runs the new program with the stdout write end on slot 1.
C19_Witness ==
    /\ Returned(0)
    /\ cPc = "execd"
    /\ NumFlags = 3
    /\ cFd[STDOUT_FILENO] = "stdoutW"
    /\ mem[stdinFd] >= 0
====
